---------------------------- MODULE Spec2Model ----------------------------
(***************************************************************************)
(* Invoice & Warehouse Management dashboard (streamlit_app.py).            *)
(*                                                                         *)
(* The module models                                                       *)
(*   - the CSV pipeline process_csv_data: column reconciliation, row       *)
(*     filtering, cell coercion, group-by/aggregate into tiles;            *)
(*   - the Streamlit script run around it: session_state lists, the three  *)
(*     SQLite tables, tile display, statistics, delete / restore /         *)
(*     refresh / clear-all and the machine forms.                          *)
(*                                                                         *)
(* Text cells are sequences of one-character strings, so that str.strip,   *)
(* the decimal and date parsers and the group ordering are computed on     *)
(* the characters; text the program produces (astype(str), join, +) is a   *)
(* TLA+ string.  float64 values are modelled bit-exactly (53-bit           *)
(* significand, round-to-nearest-even) on a fixed grid, see "float64".     *)
(***************************************************************************)
EXTENDS Integers, Sequences, FiniteSets, TLC

(***************************************************************************)
(* Generic helpers                                                         *)
(***************************************************************************)
Range(s) == {s[i] : i \in 1..Len(s)}

\* NaN / None / NaT: the missing cell value pandas uses.  A text cell is a
\* sequence of one-character strings, so this value is never a text.
NaN == <<"NaN">>

isna(v) == v = NaN

(***************************************************************************)
(* Text                                                                    *)
(***************************************************************************)
\* Characters in code-point order (Python compares str by code point).
Ascii ==
  <<"\t", "\n", "\r", " ", "!", "#", "$", "%", "&", "'", "(", ")", "*", "+", ",", "-", ".", "/",
    "0", "1", "2", "3", "4", "5", "6", "7", "8", "9", ":", ";", "<", "=", ">", "?", "@",
    "A", "B", "C", "D", "E", "F", "G", "H", "I", "J", "K", "L", "M",
    "N", "O", "P", "Q", "R", "S", "T", "U", "V", "W", "X", "Y", "Z", "_",
    "a", "b", "c", "d", "e", "f", "g", "h", "i", "j", "k", "l", "m",
    "n", "o", "p", "q", "r", "s", "t", "u", "v", "w", "x", "y", "z", "|">>

ord(c) == CHOOSE i \in 1..Len(Ascii) : Ascii[i] = c

\* str.__lt__ on two texts: lexicographic by code point.
RECURSIVE str_lt(_, _)
str_lt(s, t) ==
  IF t = <<>> THEN FALSE
  ELSE IF s = <<>> THEN TRUE
  ELSE IF s[1] = t[1] THEN str_lt(Tail(s), Tail(t))
  ELSE ord(s[1]) < ord(t[1])

\* Characters str.strip() removes.
Whitespace == {" ", "\t", "\n", "\r"}

RECURSIVE lstrip(_)
lstrip(s) ==
  IF s # <<>> /\ s[1] \in Whitespace THEN lstrip(Tail(s)) ELSE s

RECURSIVE rstrip(_)
rstrip(s) ==
  IF s # <<>> /\ s[Len(s)] \in Whitespace THEN rstrip(SubSeq(s, 1, Len(s) - 1)) ELSE s

\* str.strip()
strip(s) == rstrip(lstrip(s))

\* The text as one string value (what an f-string, join or + produces).
RECURSIVE Str(_)
Str(s) == IF s = <<>> THEN "" ELSE s[1] \o Str(Tail(s))

\* Series.astype(str) on an object column cell: text stays, NaN becomes 'nan'.
astype_str(v) == IF isna(v) THEN <<"n", "a", "n">> ELSE v

\* sep.join(items) for a sequence of strings.
RECURSIVE join(_, _)
join(sep, items) ==
  IF items = <<>> THEN ""
  ELSE IF Len(items) = 1 THEN items[1]
  ELSE items[1] \o sep \o join(sep, Tail(items))

(***************************************************************************)
(* float64                                                                 *)
(*                                                                         *)
(* A float64 x with x = 0 or 2^-4 <= |x| < 4 is an integer multiple of     *)
(* 2^-56; it is held as <<hi, lo>> with x = (hi * 2^28 + lo) * 2^-56,      *)
(* 0 <= lo < 2^28 (hi carries the sign, floor convention).  Sums and       *)
(* differences of such values are computed exactly on the grid and then    *)
(* rounded to 53 significant bits, ties to even, as IEEE 754 binary64      *)
(* addition does.                                                          *)
(***************************************************************************)
Limb == 268435456        \* 2^28
Chunk == 16384           \* 2^14
\* smallest hi of a magnitude with more than 53 significant bits: 2^(53-28)
Hi53 == 33554432

FZero == <<0, 0>>

FNorm(hi, lo) == <<hi + (lo \div Limb), lo % Limb>>

FNeg(a) == IF a[2] = 0 THEN <<-a[1], 0>> ELSE <<-a[1] - 1, Limb - a[2]>>

FIsNeg(a) == a[1] < 0

\* a < b on the grid
FLess(a, b) == a[1] < b[1] \/ (a[1] = b[1] /\ a[2] < b[2])

\* Number of low bits a non-negative magnitude has beyond 53 significant bits.
ExcessBits(hi) ==
  IF hi < Hi53 THEN 0
  ELSE IF hi < 2 * Hi53 THEN 1
  ELSE IF hi < 4 * Hi53 THEN 2
  ELSE IF hi < 8 * Hi53 THEN 3
  ELSE IF hi < 16 * Hi53 THEN 4
  ELSE 5

Pow2(n) == IF n = 0 THEN 1 ELSE IF n = 1 THEN 2 ELSE IF n = 2 THEN 4
           ELSE IF n = 3 THEN 8 ELSE IF n = 4 THEN 16 ELSE 32

\* Whether a magnitude is rounded up when its low bits (low, below the
\* rounding unit p, half being p/2) and a fraction f of the last grid unit
\* are dropped; frac tells how f compares with 1/2: "zero" (f = 0), "lt",
\* "eq", "gt"; odd tells whether the kept part is odd.  Ties go to even.
RoundsUp(p, low, half, frac, odd) ==
  IF p = 1
  THEN frac = "gt" \/ (frac = "eq" /\ odd)
  ELSE low > half \/ (low = half /\ (frac # "zero" \/ odd))

\* The magnitude hi*2^28 + lo + f rounded to a multiple of p
RoundAt(hi, lo, frac, p) ==
  IF RoundsUp(p, lo % p, p \div 2, frac, ((lo \div p) % 2) = 1)
  THEN FNorm(hi, lo - (lo % p) + p)
  ELSE <<hi, lo - (lo % p)>>

\* Round the non-negative exact value (hi*2^28 + lo + f) to 53 significant
\* bits, ties to even.
RoundMag(hi, lo, frac) == RoundAt(hi, lo, frac, Pow2(ExcessBits(hi)))

RoundExact(m) == RoundMag(m[1], m[2], "zero")

\* Round an exact grid value to the nearest float64.
FRound(a) == IF FIsNeg(a) THEN FNeg(RoundExact(FNeg(a))) ELSE RoundExact(a)

\* float64 a + b and a - b
FAdd(a, b) == FRound(FNorm(a[1] + b[1], a[2] + b[2]))

FSub(a, b) == FAdd(a, FNeg(b))

\* Long division of r/den (r < den) in base 2^14: k quotient digits, then
\* the remainder
RECURSIVE Quotients(_, _, _)
Quotients(r, den, k) ==
  IF k = 0 THEN <<r>>
  ELSE <<(r * Chunk) \div den>> \o Quotients((r * Chunk) % den, den, k - 1)

\* How the fraction r/den compares with 1/2
HalfCompare(r, den) ==
  IF r = 0 THEN "zero"
  ELSE IF 2 * r < den THEN "lt"
  ELSE IF 2 * r = den THEN "eq" ELSE "gt"

FromQuotients(ip, q, den) ==
  RoundMag(ip * Limb + q[1] * Chunk + q[2], q[3] * Chunk + q[4], HalfCompare(q[5], den))

\* The float64 nearest to the decimal num/den (0 <= num/den < 4, den a
\* power of ten up to 100): the correctly rounded result of the parser.
DecimalToFloat(num, den) == FromQuotients(num \div den, Quotients(num % den, den, 4), den)

(***************************************************************************)
(* Cell coercion                                                           *)
(***************************************************************************)
\* float NaN (lo is never negative in a number)
FNaN == <<0, -1>>

\* NaT, the missing Timestamp; a Timestamp is <<year, month, day>>.
NaT == <<0, 0, 0>>

Digits == {"0", "1", "2", "3", "4", "5", "6", "7", "8", "9"}

IsDigits(s) == \A i \in 1..Len(s) : s[i] \in Digits

\* int(s) for a text of digits ("" gives 0)
RECURSIVE DigitsValue(_)
DigitsValue(s) ==
  IF s = <<>> THEN 0
  ELSE 10 * DigitsValue(SubSeq(s, 1, Len(s) - 1)) + (ord(s[Len(s)]) - ord("0"))

RECURSIVE Pow10(_)
Pow10(n) == IF n = 0 THEN 1 ELSE 10 * Pow10(n - 1)

\* The float of a literal with integer part ip and fraction part fp
DecimalLiteral(ip, fp) ==
  IF IsDigits(ip) /\ IsDigits(fp) /\ (ip # <<>> \/ fp # <<>>)
  THEN DecimalToFloat(DigitsValue(ip \o fp), Pow10(Len(fp)))
  ELSE FNaN

SplitAt(v, dot) == DecimalLiteral(SubSeq(v, 1, dot - 1), SubSeq(v, dot + 1, Len(v)))

SplitAtPoint(v, dots) ==
  IF Cardinality(dots) > 1 THEN FNaN
  ELSE SplitAt(v, IF dots = {} THEN Len(v) + 1 ELSE CHOOSE i \in dots : TRUE)

\* pd.to_numeric(..., errors='coerce') on one cell: a plain decimal literal
\* (digits, optionally a point and digits) gives the nearest float64,
\* anything else (missing cell, other text) gives NaN.
to_numeric(v) ==
  IF isna(v) \/ v = <<>> THEN FNaN
  ELSE SplitAtPoint(v, {i \in 1..Len(v) : v[i] = "."})

\* Series.fillna(0) on one float
fillna0(r) == IF r = FNaN THEN FZero ELSE r

IsLeap(y) == (y % 4 = 0 /\ y % 100 # 0) \/ y % 400 = 0

DaysIn(y, m) ==
  IF m = 2 THEN (IF IsLeap(y) THEN 29 ELSE 28)
  ELSE IF m \in {4, 6, 9, 11} THEN 30 ELSE 31

\* Timestamp(y, m, d) if that is a calendar day
CalendarDay(y, m, d) ==
  IF m \in 1..12 /\ y >= 1 /\ d >= 1 /\ d <= DaysIn(y, m) THEN <<y, m, d>> ELSE NaT

DayFirst(dd, mm, yy) ==
  IF IsDigits(dd) /\ IsDigits(mm) /\ IsDigits(yy)
  THEN CalendarDay(DigitsValue(yy), DigitsValue(mm), DigitsValue(dd))
  ELSE NaT

\* pd.to_datetime(..., errors='coerce', dayfirst=True) on one cell: a
\* DD/MM/YYYY text naming a calendar day gives that day, a missing cell or
\* a text that is no date gives NaT.
to_datetime(v) ==
  IF isna(v) \/ Len(v) # 10 THEN NaT
  ELSE IF v[3] # "/" \/ v[6] # "/" THEN NaT
  ELSE DayFirst(SubSeq(v, 1, 2), SubSeq(v, 4, 5), SubSeq(v, 7, 10))

(***************************************************************************)
(* DataFrame: [columns |-> sequence of names, rows |-> sequence of rows],  *)
(* a row being the sequence of its cells in column order.  An object cell  *)
(* is a text or NaN.                                                       *)
(***************************************************************************)
\* name in df.columns
HasColumn(df, name) == \E i \in 1..Len(df.columns) : df.columns[i] = name

\* position of column name (names are unique in the tables read here)
ColumnIndex(df, name) == CHOOSE i \in 1..Len(df.columns) : df.columns[i] = name

\* df[name] at one row
Cell(df, row, name) == row[ColumnIndex(df, name)]

\* df.columns = df.columns.str.strip()
StripColumns(df) ==
  [df EXCEPT !.columns = [i \in 1..Len(df.columns) |-> strip(df.columns[i])]]

\* df.dropna(how='all'): rows whose cells are all missing are removed
dropna_all(df) ==
  [df EXCEPT !.rows = SelectSeq(df.rows, LAMBDA r : \E i \in 1..Len(r) : ~isna(r[i]))]

\* df.dropna(subset=names): rows with a missing cell in one of names are removed
dropna_subset(df, names) ==
  [df EXCEPT !.rows = SelectSeq(df.rows, LAMBDA r : \A n \in names : ~isna(Cell(df, r, n)))]

\* df[target] = df[source] for a target that is no column yet: a copy of
\* the source column is appended
AssignColumn(df, target, source) ==
  [df EXCEPT
     !.columns = Append(df.columns, target),
     !.rows = [i \in 1..Len(df.rows) |-> Append(df.rows[i], Cell(df, df.rows[i], source))]]

(***************************************************************************)
(* pd.read_csv                                                             *)
(***************************************************************************)
\* The texts read_csv reads as a missing value (its default na_values).
NaValues ==
  { <<>>,
    <<"#", "N", "/", "A">>,
    <<"#", "N", "/", "A", " ", "N", "/", "A">>,
    <<"#", "N", "A">>,
    <<"-", "1", ".", "#", "I", "N", "D">>,
    <<"-", "1", ".", "#", "Q", "N", "A", "N">>,
    <<"-", "N", "a", "N">>,
    <<"-", "n", "a", "n">>,
    <<"1", ".", "#", "I", "N", "D">>,
    <<"1", ".", "#", "Q", "N", "A", "N">>,
    <<"<", "N", "A", ">">>,
    <<"N", "/", "A">>,
    <<"N", "A">>,
    <<"N", "U", "L", "L">>,
    <<"N", "a", "N">>,
    <<"N", "o", "n", "e">>,
    <<"n", "/", "a">>,
    <<"n", "a", "n">>,
    <<"n", "u", "l", "l">> }

\* str(i) for a column position
RECURSIVE IntText(_)
IntText(n) == IF n < 10 THEN <<Ascii[ord("0") + n]>>
              ELSE IntText(n \div 10) \o <<Ascii[ord("0") + (n % 10)]>>

\* The name read_csv gives the column at 0-based position i whose header
\* cell is empty.
UnnamedColumn(i) == <<"U", "n", "n", "a", "m", "e", "d", ":", " ">> \o IntText(i)

\* pd.read_csv(uploaded_file, skiprows=skiprows) on a file given as its
\* lines of cells (at least one line, all lines of one width, header names
\* distinct).  The first line kept is the header; a cell holding an NA text
\* is NaN.  With no line left there are no columns to parse and read_csv
\* raises EmptyDataError, recorded in the field raised.
read_csv(file, skiprows) ==
  IF Len(file) <= skiprows
  THEN [raised |-> "EmptyDataError", columns |-> <<>>, rows |-> <<>>]
  ELSE LET header == file[skiprows + 1]
       IN  [raised  |-> "",
            columns |-> [i \in 1..Len(header) |->
                           IF header[i] = <<>> THEN UnnamedColumn(i - 1) ELSE header[i]],
            rows    |-> [k \in 1..(Len(file) - skiprows - 1) |->
                           [i \in 1..Len(header) |->
                              IF file[skiprows + 1 + k][i] \in NaValues
                              THEN NaN ELSE file[skiprows + 1 + k][i]]]]

(***************************************************************************)
(* process_csv_data                                                        *)
(***************************************************************************)
\* Canonical column names
DocNo == <<"D", "o", "c", "N", "o">>
Date == <<"D", "a", "t", "e">>
Party == <<"P", "a", "r", "t", "y">>
StockCode == <<"S", "t", "o", "c", "k", "C", "o", "d", "e">>
Description == <<"D", "e", "s", "c", "r", "i", "p", "t", "i", "o", "n">>
Rate == <<"R", "a", "t", "e">>

\* column_mapping, in dict order: <<standard name, possible names in order>>
column_mapping ==
  << <<DocNo, <<<<"D", "o", "c", "N", "o">>,
         <<"D", "o", "c", "u", "m", "e", "n", "t", " ", "N", "u", "m", "b", "e", "r">>,
         <<"D", "o", "c", " ", "N", "o">>,
         <<"D", "o", "c", "n", "o">>>>>>,
     <<Date, <<<<"D", "a", "t", "e">>,
         <<"D", "o", "c", " ", "D", "a", "t", "e">>,
         <<"D", "o", "c", "u", "m", "e", "n", "t", " ", "D", "a", "t", "e">>>>>>,
     <<Party, <<<<"P", "a", "r", "t", "y">>,
         <<"C", "u", "s", "t", "o", "m", "e", "r">>,
         <<"C", "l", "i", "e", "n", "t">>,
         <<"C", "o", "m", "p", "a", "n", "y">>>>>>,
     <<StockCode, <<<<"S", "t", "o", "c", "k", "C", "o", "d", "e">>,
         <<"S", "t", "o", "c", "k", " ", "C", "o", "d", "e">>,
         <<"I", "t", "e", "m", " ", "C", "o", "d", "e">>,
         <<"P", "r", "o", "d", "u", "c", "t", " ", "C", "o", "d", "e">>>>>>,
     <<Description, <<<<"D", "e", "s", "c", "r", "i", "p", "t", "i", "o", "n">>,
         <<"I", "t", "e", "m", " ", "D", "e", "s", "c", "r", "i", "p", "t", "i", "o", "n">>,
         <<"P", "r", "o", "d", "u", "c", "t", " ", "D", "e", "s", "c", "r", "i", "p", "t", "i", "o", "n">>>>>>,
     <<Rate, <<<<"R", "a", "t", "e">>,
         <<"A", "m", "o", "u", "n", "t">>,
         <<"P", "r", "i", "c", "e">>,
         <<"U", "n", "i", "t", " ", "P", "r", "i", "c", "e">>,
         <<"G", "r", ".", "A", "m", "t">>>>>> >>

required_columns == <<DocNo, Date, Party, StockCode, Description, Rate>>

\* The position in possible of the last name that is a column, 0 if none
LastPresent(df, possible) ==
  LET found == {k \in 1..Len(possible) : HasColumn(df, possible[k])}
  IN  IF found = {} THEN 0 ELSE CHOOSE k \in found : \A j \in found : k >= j

\* next((col for col in possible if col in df.columns), "Not found"): the
\* position in possible of the first name that is a column, 0 if none
FirstPresent(df, possible) ==
  LET found == {k \in 1..Len(possible) : HasColumn(df, possible[k])}
  IN  IF found = {} THEN 0 ELSE CHOOSE k \in found : \A j \in found : k <= j

\* df[standard_name] = df[possible_name] unless the names are equal
MapTo(df, entry, k) ==
  IF k = 0 \/ entry[2][k] = entry[1] THEN df
  ELSE AssignColumn(df, entry[1], entry[2][k])

\* One pass of the outer mapping loop: the first possible name present is
\* copied to the standard name unless it is the standard name itself.
MapColumn(df, entry) == MapTo(df, entry, FirstPresent(df, entry[2]))

\* "Map columns to standard names": the loop over column_mapping.items()
RECURSIVE MapColumns(_, _)
MapColumns(df, i) ==
  IF i > Len(column_mapping) THEN df
  ELSE MapColumns(MapColumn(df, column_mapping[i]), i + 1)

\* Only the first of the required columns that is not a column
first_missing_column(df) ==
  IF \A c \in Range(required_columns) : HasColumn(df, c) THEN <<>>
  ELSE <<required_columns[CHOOSE i \in 1..Len(required_columns) :
                            /\ ~HasColumn(df, required_columns[i])
                            /\ \A j \in 1..(i - 1) : HasColumn(df, required_columns[j])]>>

\* [col for col in required_columns if col not in df.columns]
missing_columns(df) == SelectSeq(required_columns, LAMBDA c : ~HasColumn(df, c))

\* The columns of df_filtered after the conversions of one row: Date by
\* pd.to_datetime, Rate by pd.to_numeric(...).fillna(0), the three text
\* fields by astype(str).str.strip(); DocNo is left as read.
ConvertRow(df, row) ==
  [DocNo       |-> Cell(df, row, DocNo),
   Date        |-> to_datetime(Cell(df, row, Date)),
   Party       |-> strip(astype_str(Cell(df, row, Party))),
   StockCode   |-> strip(astype_str(Cell(df, row, StockCode))),
   Description |-> strip(astype_str(Cell(df, row, Description))),
   Rate        |-> fillna0(to_numeric(Cell(df, row, Rate)))]

\* The group keys of groupby('DocNo'): the distinct DocNo values, sorted
\* (groupby sorts its keys, sort=True).
RECURSIVE SortedKeys(_)
SortedKeys(S) ==
  IF S = {} THEN <<>>
  ELSE LET m == CHOOSE k \in S : \A j \in S \ {k} : str_lt(k, j)
       IN  <<m>> \o SortedKeys(S \ {m})

\* GroupBy 'first': the first value of the group that is not missing, the
\* missing value when there is none.
RECURSIVE first(_, _)
first(values, null) ==
  IF values = <<>> THEN null
  ELSE IF values[1] # null THEN values[1]
  ELSE first(Tail(values), null)

KahanCompensate(sumx, y, t) == <<t, FSub(FSub(t, sumx), y)>>

KahanAdd(sumx, y) == KahanCompensate(sumx, y, FAdd(sumx, y))

\* One step of Kahan summation on acc = <<sumx, compensation>>:
\*   y = val - compensation; t = sumx + y; compensation = t - sumx - y; sumx = t
KahanStep(acc, val) == KahanAdd(acc[1], FSub(val, acc[2]))

\* GroupBy 'sum' on float64 (pandas group_sum): Kahan summation
RECURSIVE group_sum(_, _)
group_sum(values, acc) ==
  IF values = <<>> THEN acc[1]
  ELSE group_sum(Tail(values), KahanStep(acc, values[1]))

\* The values of a sequence without repetitions, in order of first occurrence
RECURSIVE Unique(_)
Unique(q) ==
  IF q = <<>> THEN <<>>
  ELSE Unique(SubSeq(q, 1, Len(q) - 1))
         \o (IF \E i \in 1..(Len(q) - 1) : q[i] = q[Len(q)] THEN <<>> ELSE <<q[Len(q)]>>)

\* The join over the distinct values only
join_unique(sep, values) ==
  join(sep, [i \in 1..Len(Unique(values)) |-> Str(astype_str(Unique(values)[i]))])

\* lambda x: sep.join(x.astype(str)) on the values of one group
join_astype(sep, values) ==
  join(sep, [i \in 1..Len(values) |-> Str(astype_str(values[i]))])

\* The DocNo alone as the tile's identity
DocNoOnly(key) == Str(astype_str(key))

\* grouped['tile_id'] = grouped['DocNo'].astype(str) + '_tile'
TileId(key) == Str(astype_str(key)) \o "_tile"

\* One row of grouped: the aggregate of the member rows of one DocNo, with
\* its tile_id.
Aggregate(key, members) ==
  LET n == Len(members)
  IN  [DocNo       |-> Str(key),
       Date        |-> first([i \in 1..n |-> members[i].Date], NaT),
       Party       |-> Str(first([i \in 1..n |-> members[i].Party], NaN)),
       StockCode   |-> join_astype(", ", [i \in 1..n |-> members[i].StockCode]),
       Description |-> join_astype(" | ", [i \in 1..n |-> members[i].Description]),
       Rate        |-> group_sum([i \in 1..n |-> members[i].Rate], <<FZero, FZero>>),
       tile_id     |-> TileId(key)]

\* One aggregate per row instead of one per key
AggregatePerRow(rows, keys) ==
  [k \in 1..Len(rows) |-> Aggregate(rows[k].DocNo, <<rows[k]>>)]

AggregateKeys(rows, keys) ==
  [k \in 1..Len(keys) |->
     Aggregate(keys[k], SelectSeq(rows, LAMBDA r : r.DocNo = keys[k]))]

\* df_filtered.groupby('DocNo').agg({...}).reset_index() with tile_id added
GroupRows(rows) == AggregateKeys(rows, SortedKeys({rows[i].DocNo : i \in 1..Len(rows)}))

\* df without the rows that miss any of DocNo, Party, Date, Rate
dropna_coerced(df) == dropna_subset(df, {DocNo, Party, Date, Rate})

\* The rows of df_filtered: df without the rows that miss DocNo or Party
df_filtered(df) == dropna_subset(df, {DocNo, Party})

\* The texts of a sequence as strings
Names(q) == [i \in 1..Len(q) |-> Str(q[i])]

FoundName(possible, k) == IF k = 0 THEN "Not found" ELSE Str(possible[k])

\* What process_csv_data returns and reports: the returned frame (grouped,
\* a sequence of tiles, empty for pd.DataFrame()), the missing columns of
\* st.error with the available columns and the mapping attempted, and the
\* "No valid records found" warning.
NoResult ==
  [grouped |-> <<>>, missing |-> <<>>, available |-> <<>>, attempted |-> <<>>,
   warning |-> FALSE]

\* "if missing_columns:" the report and the empty frame
MissingColumnsResult(df, missing) ==
  [NoResult EXCEPT
     !.missing = Names(missing),
     !.available = Names(df.columns),
     !.attempted = [i \in 1..Len(column_mapping) |->
                      FoundName(column_mapping[i][2], FirstPresent(df, column_mapping[i][2]))]]

\* The aggregation without the check for no rows left
FilteredUnchecked(kept) ==
  [NoResult EXCEPT
     !.grouped = GroupRows([i \in 1..Len(kept.rows) |-> ConvertRow(kept, kept.rows[i])])]

\* From "Remove rows with missing essential data" on, kept being df_filtered
FilteredResult(kept) ==
  IF Len(kept.rows) = 0
  THEN [NoResult EXCEPT !.warning = TRUE]
  ELSE [NoResult EXCEPT
          !.grouped = GroupRows([i \in 1..Len(kept.rows) |-> ConvertRow(kept, kept.rows[i])])]

\* From "Check if required columns exist after mapping" on
MappedResult(df, missing) ==
  IF missing # <<>> THEN MissingColumnsResult(df, missing)
  ELSE FilteredResult(df_filtered(df))

CheckedResult(df) == MappedResult(df, missing_columns(df))

\* process_csv_data(df)
process_csv_data(df0) == CheckedResult(MapColumns(dropna_all(StripColumns(df0)), 1))

(***************************************************************************)
(* State                                                                   *)
(***************************************************************************)
VARIABLES
  db_deleted_tiles,        \* table deleted_tiles: its tile_id rows, in rowid order
  db_warranty_machines,    \* table warranty_machines, rows in added_date order
  db_out_warranty_machines,\* table out_warranty_machines, rows in added_date order
  session_state,           \* st.session_state of the browser session
  uploaded_file,           \* the file in st.file_uploader, NoFile if none
  screen                   \* what the last script run rendered

vars == <<db_deleted_tiles, db_warranty_machines, db_out_warranty_machines,
          session_state, uploaded_file, screen>>

\* uploaded_file is None (a file has at least its header line)
NoFile == <<>>

(***************************************************************************)
(* Database functions                                                      *)
(***************************************************************************)
\* All orders of a finite set
RECURSIVE Orderings(_)
Orderings(S) ==
  IF S = {} THEN {<<>>}
  ELSE UNION {{<<e>> \o q : q \in Orderings(S \ {e})} : e \in S}

\* load_deleted_tiles(): SELECT tile_id FROM deleted_tiles has no ORDER BY,
\* so the rows come in an order SQLite chooses: any order of the table.
load_deleted_tiles(table) == Orderings(Range(table))

\* The table left as it is
add_nothing(table, tile_id) == table

\* The row inserted whether or not its key is in the table
insert_unchecked(table, tile_id) == Append(table, tile_id)

\* add_deleted_tile(tile_id): INSERT OR IGNORE INTO deleted_tiles, tile_id
\* being the primary key: a row whose key is in the table is ignored
add_deleted_tile(table, tile_id) ==
  IF tile_id \in Range(table) THEN table ELSE Append(table, tile_id)

\* restore_deleted_tiles(): DELETE FROM deleted_tiles
restore_deleted_tiles(table) == <<>>

Reverse(q) == [i \in 1..Len(q) |-> q[Len(q) + 1 - i]]

\* load_warranty_machines() / load_out_warranty_machines():
\* SELECT ... ORDER BY added_date DESC
load_machines(table) == Reverse(table)

\* add_warranty_machine(machine_data) / add_out_warranty_machine(machine_data):
\* INSERT of a row with a new id, added_date being the time of the insert
add_machine(table, machine) == Append(table, machine)

\* The table with every row kept
keep_machine(table, machine_id) == table

\* delete_warranty_machine(machine_id) / delete_out_warranty_machine(machine_id)
delete_machine(table, machine_id) == SelectSeq(table, LAMBDA m : m.id # machine_id)

(***************************************************************************)
(* The script run: tab1 (Invoice Analysis)                                 *)
(***************************************************************************)
\* sub in s, for two texts
Contains(s, sub) ==
  \E i \in 1..(Len(s) - Len(sub) + 1) : SubSeq(s, i, i + Len(sub) - 1) = sub

TRANSACTION_CHECKLIST == <<"T", "R", "A", "N", "S", "A", "C", "T", "I", "O", "N", " ", "C", "H", "E", "C", "K", "L", "I", "S", "T">>
Unnamed == <<"U", "n", "n", "a", "m", "e", "d", ":">>

\* The check for the banner caption alone
BannerOnly(df_temp) ==
  /\ Len(df_temp.columns) > 0
  /\ Contains(df_temp.columns[1], TRANSACTION_CHECKLIST)

\* "Check if first row contains TRANSACTION CHECKLIST or similar header issues"
HeaderIssue(df_temp) ==
  /\ Len(df_temp.columns) > 0
  /\ \/ Contains(df_temp.columns[1], TRANSACTION_CHECKLIST)
     \/ Contains(df_temp.columns[1], Unnamed)

\* processed_df[~processed_df['tile_id'].isin(deleted_tiles)]
display_df(processed_df, deleted_tiles) ==
  SelectSeq(processed_df, LAMBDA t : t.tile_id \notin Range(deleted_tiles))

\* create_tile over display_df.iterrows(): the tiles rendered with their
\* Delete button (create_tile returns None for a tile_id in deleted_tiles)
create_tiles(rows, deleted_tiles) ==
  SelectSeq(rows, LAMBDA t : t.tile_id \notin Range(deleted_tiles))

\* display_df.groupby(display_df['Date'].dt.date)['Rate'].sum(): income per
\* day, rows without a Date belonging to no group
date_income(rows) ==
  [d \in {rows[i].Date : i \in 1..Len(rows)} \ {NaT} |->
     LET g == SelectSeq(rows, LAMBDA t : t.Date = d)
     IN  group_sum([i \in 1..Len(g) |-> g[i].Rate], <<FZero, FZero>>)]

\* display_df.groupby('Party').agg({'DocNo': 'count', 'Rate': 'sum'})
party_stats(rows) ==
  [p \in {rows[i].Party : i \in 1..Len(rows)} |->
     LET g == SelectSeq(rows, LAMBDA t : t.Party = p)
     IN  [Machine_Count |-> Len(g),
          Total_Revenue |-> group_sum([i \in 1..Len(g) |-> g[i].Rate], <<FZero, FZero>>)]]

\* Series.sum() (numpy add.reduce on a short array): left to right
RECURSIVE series_sum(_, _)
series_sum(values, acc) ==
  IF values = <<>> THEN acc ELSE series_sum(Tail(values), FAdd(acc, values[1]))

\* Series.max(): NaN for an empty series
RECURSIVE series_max(_, _)
series_max(values, acc) ==
  IF values = <<>> THEN acc
  ELSE series_max(Tail(values),
                  IF acc = FNaN \/ FLess(acc, values[1]) THEN values[1] ELSE acc)

\* The four metrics of "Summary Statistics" but the mean
summary(rows) ==
  [Total_Income   |-> series_sum([i \in 1..Len(rows) |-> rows[i].Rate], FZero),
   Highest_Order  |-> series_max([i \in 1..Len(rows) |-> rows[i].Rate], FNaN),
   Active_Parties |-> Cardinality({rows[i].Party : i \in 1..Len(rows)})]

\* What tab1 shows when nothing of a section is rendered
Tab1Blank ==
  [state |-> "no_file", error |-> "", recovered |-> FALSE, total_rows |-> 0,
   missing |-> <<>>, available |-> <<>>, attempted |-> <<>>, no_valid |-> FALSE,
   processed |-> <<>>, tiles |-> <<>>, analytics |-> FALSE,
   date_income |-> <<>>, party_stats |-> <<>>,
   summary |-> [Total_Income |-> FZero, Highest_Order |-> FNaN, Active_Parties |-> 0],
   restore |-> FALSE, deleted_listed |-> <<>>]

\* "if len(processed_df) > 0:" with display_df as shown, else the warning
Tab1Shown(base, shown, deleted_tiles) ==
  IF Len(base.processed) > 0
  THEN [base EXCEPT
          !.state = "tiles",
          !.tiles = create_tiles(shown, deleted_tiles),
          !.analytics = TRUE,
          !.date_income = date_income(shown),
          !.party_stats = party_stats(shown),
          !.summary = summary(shown),
          \* with more than one row shown, party_stats['Total_Revenue'] is
          \* looked up after the columns were renamed: KeyError, caught by
          \* the handler around the upload, the rest of tab1 is not rendered
          !.error = IF Len(shown) > 1 THEN "KeyError" ELSE "",
          !.restore = Len(shown) <= 1 /\ deleted_tiles # <<>>,
          !.deleted_listed = IF Len(shown) <= 1 THEN deleted_tiles ELSE <<>>]
  ELSE [base EXCEPT !.state = "no_records"]

\* The same with the deleted tiles taken out of the result itself
Tab1ProcessedShown(df, result, recovered, deleted_tiles) ==
  Tab1Shown([Tab1Blank EXCEPT
               !.recovered = recovered,
               !.total_rows = Len(df.rows),
               !.missing = result.missing,
               !.available = result.available,
               !.attempted = result.attempted,
               !.no_valid = result.warning,
               !.processed = display_df(result.grouped, deleted_tiles)],
            display_df(result.grouped, deleted_tiles), deleted_tiles)

Tab1Processed(df, result, recovered, deleted_tiles) ==
  Tab1Shown([Tab1Blank EXCEPT
               !.recovered = recovered,
               !.total_rows = Len(df.rows),
               !.missing = result.missing,
               !.available = result.available,
               !.attempted = result.attempted,
               !.no_valid = result.warning,
               !.processed = result.grouped],
            display_df(result.grouped, deleted_tiles), deleted_tiles)

Tab1Cleaned(df, recovered, deleted_tiles) ==
  Tab1Processed(df, process_csv_data(df), recovered, deleted_tiles)

\* The body of "with tab1:" from "Clean column names" on, for the frame read
Tab1Frame(df, recovered, deleted_tiles) ==
  IF df.raised # ""
  THEN [Tab1Blank EXCEPT !.state = "error", !.error = df.raised]
  ELSE Tab1Cleaned(dropna_all(StripColumns(df)), recovered, deleted_tiles)

\* The second read of the file when the header row has the known issue
Tab1Read(file, df_temp, issue, deleted_tiles) ==
  Tab1Frame(IF issue THEN read_csv(file, 1) ELSE df_temp, issue, deleted_tiles)

Tab1Header(file, df_temp, deleted_tiles) ==
  IF df_temp.raised # ""
  THEN [Tab1Blank EXCEPT !.state = "error", !.error = df_temp.raised]
  ELSE Tab1Read(file, df_temp, HeaderIssue(df_temp), deleted_tiles)

\* The body of "with tab1:".  read_csv failing raises into the handler,
\* which reports the error.
Tab1(file, deleted_tiles) ==
  IF file = NoFile THEN Tab1Blank
  ELSE Tab1Header(file, read_csv(file, 0), deleted_tiles)

(***************************************************************************)
(* The script run: tab2 (Machine in Warehouse), tab3 (Database Info)       *)
(***************************************************************************)
\* sum(m['num_machines'] for m in machines)
RECURSIVE total_machines(_)
total_machines(machines) ==
  IF machines = <<>> THEN 0
  ELSE machines[1].num_machines + total_machines(Tail(machines))

\* The body of "with tab2:": both machine lists with their delete buttons
\* and the warehouse summary
Tab2(ss) ==
  [warranty        |-> ss.warranty_machines,
   out_of_warranty |-> ss.out_of_warranty_machines,
   summary         |-> ss.warranty_machines # <<>> \/ ss.out_of_warranty_machines # <<>>,
   total_warranty  |-> total_machines(ss.warranty_machines),
   total_out       |-> total_machines(ss.out_of_warranty_machines)]

\* The body of "with tab3:": the three counts, the tables shown, and the
\* warning of the first click on "Clear All Database Data"
Tab3(ss, clear_warning) ==
  [deleted_tiles   |-> Len(ss.deleted_tiles),
   warranty        |-> Len(ss.warranty_machines),
   out_of_warranty |-> Len(ss.out_of_warranty_machines),
   clear_warning   |-> clear_warning]

\* One run of the script from top to bottom; exception is the exception
\* that ended the run uncaught, "" when it reached the end of the script
ScriptRun(file, ss, clear_warning) ==
  [tab1 |-> Tab1(file, ss.deleted_tiles),
   tab2 |-> Tab2(ss),
   tab3 |-> Tab3(ss, clear_warning),
   exception |-> ""]

\* "Initialize session state with database data": the session_state of a
\* session whose first script run loads the three lists
NewSessionStates ==
  {[deleted_tiles            |-> q,
    warranty_machines        |-> load_machines(db_warranty_machines),
    out_of_warranty_machines |-> load_machines(db_out_warranty_machines),
    confirm_clear            |-> FALSE] : q \in load_deleted_tiles(db_deleted_tiles)}

(***************************************************************************)
(* Inputs                                                                  *)
(***************************************************************************)
\* Bounds of the model
MaxRows == 3          \* data rows of a file given to the pipeline
MaxUploadRows == 2    \* data rows of a file uploaded in a session
MaxMachines == 1      \* machines in one machine list

\* Cell texts
tA1 == <<"A", "1">>
tA2 == <<"A", "2">>
tBlank == <<" ", " ">>
tAcme == <<"A", "c", "m", "e">>
tBolt == <<" ", "B", "o", "l", "t", " ">>
tDay1 == <<"0", "1", "/", "0", "2", "/", "2", "0", "2", "4">>
tDay2 == <<"1", "5", "/", "0", "3", "/", "2", "0", "2", "4">>
tNoDate == <<"u", "n", "k", "n", "o", "w", "n">>
tA == <<"A">>
tB == <<"B">>
tWidget == <<"W", "i", "d", "g", "e", "t">>
tWidgetPadded == <<" ", "W", "i", "d", "g", "e", "t", " ">>
tGadget == <<"G", "a", "d", "g", "e", "t">>
tRate01 == <<"0", ".", "1">>
tRate02 == <<"0", ".", "2">>
tRate03 == <<"0", ".", "3">>
tNA == <<"N", "/", "A">>
tJunk == <<"x", "1">>

\* The header of a file that names the six fields canonically
CanonicalHeader == <<DocNo, Date, Party, StockCode, Description, Rate>>

\* Data lines under CanonicalHeader: plain rows of two documents, rows with
\* a Date or Rate that does not parse, padded texts, and rows with a
\* missing or blank DocNo or Party
PipelineRows ==
  { <<tA1, tDay1, tAcme, tA, tWidget, tRate01>>,
    <<tA1, tNoDate, tAcme, tB, tGadget, tRate02>>,
    <<tA1, tDay2, tBolt, tA, tWidgetPadded, tNA>>,
    <<tA1, tDay2, tAcme, tA, tWidget, tRate03>>,
    <<tA2, tDay1, tAcme, tB, tGadget, tRate03>>,
    <<tA2, <<>>, tBolt, tA, <<>>, tJunk>>,
    <<tA1, tDay2, tBlank, tB, tGadget, tRate02>>,
    <<tA1, tDay1, <<>>, tA, tWidget, tRate01>>,
    <<<<>>, tDay1, tAcme, tB, tGadget, tRate02>>,
    <<tBlank, tDay2, tAcme, tA, tWidget, tRate03>>,
    <<<<>>, <<>>, <<>>, <<>>, <<>>, <<>>>> }

\* All sequences over S of length at most n
RECURSIVE SeqsUpTo(_, _)
SeqsUpTo(S, n) ==
  IF n = 0 THEN {<<>>}
  ELSE LET shorter == SeqsUpTo(S, n - 1)
       IN  shorter \cup {Append(q, e) : q \in shorter, e \in S}

DataFiles == {<<CanonicalHeader>> \o rows : rows \in SeqsUpTo(PipelineRows, MaxRows)}

\* Columns a header may carry: for each field two of its names (one of
\* them padded), each with its own data cell
HeaderColumns ==
  << <<<<"D", "o", "c", " ", "N", "o">>, tA1>>, <<<<"D", "o", "c", "n", "o">>, tA2>>,
     <<<<"D", "a", "t", "e">>, tDay1>>, <<<<"D", "o", "c", "u", "m", "e", "n", "t", " ", "D", "a", "t", "e">>, tDay2>>,
     <<<<" ", "P", "a", "r", "t", "y", " ">>, tAcme>>, <<<<"C", "l", "i", "e", "n", "t">>, tBolt>>,
     <<<<"S", "t", "o", "c", "k", "C", "o", "d", "e">>, tA>>, <<<<"I", "t", "e", "m", " ", "C", "o", "d", "e">>, tB>>,
     <<<<"I", "t", "e", "m", " ", "D", "e", "s", "c", "r", "i", "p", "t", "i", "o", "n">>, tWidget>>, <<<<"P", "r", "o", "d", "u", "c", "t", " ", "D", "e", "s", "c", "r", "i", "p", "t", "i", "o", "n">>, tGadget>>,
     <<<<"A", "m", "o", "u", "n", "t">>, tRate01>>, <<<<"G", "r", ".", "A", "m", "t">>, tRate02>> >>

\* The one-row file with the columns of HeaderColumns at the positions order
ColumnsFile(order) ==
  << [i \in 1..Len(order) |-> HeaderColumns[order[i]][1]],
     [i \in 1..Len(order) |-> HeaderColumns[order[i]][2]] >>

\* the elements of a set of numbers, ascending
RECURSIVE Ascending(_)
Ascending(S) ==
  IF S = {} THEN <<>>
  ELSE LET m == CHOOSE k \in S : \A j \in S : k <= j
       IN  <<m>> \o Ascending(S \ {m})

\* Files with any non-empty choice of the columns, in two column orders
HeaderFiles ==
  UNION {{ColumnsFile(Ascending(S)), ColumnsFile(Reverse(Ascending(S)))} :
           S \in (SUBSET (1..Len(HeaderColumns))) \ {{}}}

\* First lines that are not the header: the banner caption alone and
\* inside a longer title, an empty line of commas, a title of another kind
TitleLines ==
  { <<TRANSACTION_CHECKLIST, <<>>, <<>>, <<>>, <<>>, <<>>>>,
    <<<<"M", "y", " ">> \o TRANSACTION_CHECKLIST \o <<" ", "1">>, <<>>, <<>>, <<>>, <<>>, <<>>>>,
    <<<<>>, <<>>, <<>>, <<>>, <<>>, <<>>>>,
    <<<<"I", "n", "v", "o", "i", "c", "e", "s">>, <<>>, <<>>, <<>>, <<>>, <<>>>> }

\* Second lines: the canonical names, one synonym per field, a data line
SecondLines ==
  { CanonicalHeader,
    <<HeaderColumns[1][1], HeaderColumns[4][1], HeaderColumns[6][1],
      HeaderColumns[8][1], HeaderColumns[9][1], HeaderColumns[11][1]>>,
    <<tA1, tDay1, tAcme, tA, tWidget, tRate01>> }

TitledRows ==
  { <<tA1, tDay1, tAcme, tA, tWidget, tRate01>>,
    <<tA2, tNoDate, tBolt, tB, tGadget, tRate02>>,
    <<<<>>, <<>>, <<>>, <<>>, <<>>, <<>>>> }

\* Files that start with a title line, with and without lines after it
TitledFiles ==
  {<<t>> : t \in TitleLines}
    \cup {<<t, h>> \o rows :
            t \in TitleLines, h \in SecondLines, rows \in SeqsUpTo(TitledRows, MaxRows - 1)}

PipelineFiles == DataFiles \cup HeaderFiles \cup TitledFiles

\* Data lines of the files uploaded in a session
SessionRows ==
  { <<tA1, tDay1, tAcme, tA, tWidget, tRate01>>,
    <<tA2, tNoDate, tBolt, tB, tGadget, tRate02>> }

SessionFiles ==
  {<<CanonicalHeader>> \o rows : rows \in SeqsUpTo(SessionRows, MaxUploadRows)}
    \cup {<<<<DocNo, Date>>, <<tA1, tDay1>>>>}

\* The files uploaded while the store comes and goes: one tile, two tiles
StoreFiles ==
  { <<CanonicalHeader, <<tA1, tDay1, tAcme, tA, tWidget, tRate01>>>>,
    <<CanonicalHeader, <<tA1, tDay1, tAcme, tA, tWidget, tRate01>>,
                       <<tA2, tNoDate, tBolt, tB, tGadget, tRate02>>>> }

\* uuid.uuid4() values
MachineIds == {"m1", "m2"}

\* What the warranty form can submit
WarrantyForms ==
  [machine_name : {"", "Lathe"}, client_name : {"Acme"}, num_machines : {1},
   warranty_status : {"Active"}, inspected : {"Yes"}]

\* What the out-of-warranty form can submit
OutWarrantyForms ==
  [machine_name : {"", "Press"}, client_name : {"Bolt"}, num_machines : {2},
   inspected : {"No"}, quote_lpo_status : {"Quote Sent"}]

(***************************************************************************)
(* Initial states                                                          *)
(***************************************************************************)
EmptySession ==
  [deleted_tiles |-> <<>>, warranty_machines |-> <<>>,
   out_of_warranty_machines |-> <<>>, confirm_clear |-> FALSE]

\* A new database (init_database creates the three empty tables), a new
\* session, no file chosen yet.
Init ==
  /\ db_deleted_tiles = <<>>
  /\ db_warranty_machines = <<>>
  /\ db_out_warranty_machines = <<>>
  /\ session_state = EmptySession
  /\ uploaded_file = NoFile
  /\ screen = ScriptRun(NoFile, EmptySession, FALSE)

\* The same, at the moment a file of PipelineFiles has been chosen in the
\* uploader and the script run it triggers has not started.
InitPipeline ==
  /\ db_deleted_tiles = <<>>
  /\ db_warranty_machines = <<>>
  /\ db_out_warranty_machines = <<>>
  /\ session_state = EmptySession
  /\ uploaded_file \in PipelineFiles
  /\ screen = ScriptRun(NoFile, EmptySession, FALSE)

(***************************************************************************)
(* Actions: each is one user interaction with the script run(s) it causes  *)
(***************************************************************************)
\* A script run without a button clicked (any other widget interaction)
Rerun ==
  /\ screen' = ScriptRun(uploaded_file, session_state, FALSE)
  /\ UNCHANGED <<db_deleted_tiles, db_warranty_machines, db_out_warranty_machines,
                 session_state, uploaded_file>>

\* A file is chosen in st.file_uploader
Upload(file) ==
  /\ uploaded_file' = file
  /\ screen' = ScriptRun(file, session_state, FALSE)
  /\ UNCHANGED <<db_deleted_tiles, db_warranty_machines, db_out_warranty_machines,
                 session_state>>

\* The file is removed from st.file_uploader
RemoveFile ==
  /\ uploaded_file # NoFile
  /\ uploaded_file' = NoFile
  /\ screen' = ScriptRun(NoFile, session_state, FALSE)
  /\ UNCHANGED <<db_deleted_tiles, db_warranty_machines, db_out_warranty_machines,
                 session_state>>

\* create_tile: the Delete button of a rendered tile is clicked
DeleteTile(tile_id) ==
  /\ \E i \in 1..Len(screen.tab1.tiles) : screen.tab1.tiles[i].tile_id = tile_id
  /\ IF tile_id \notin Range(session_state.deleted_tiles)
     THEN /\ session_state' =
               [session_state EXCEPT !.deleted_tiles = Append(@, tile_id)]
          /\ db_deleted_tiles' = add_deleted_tile(db_deleted_tiles, tile_id)
     ELSE UNCHANGED <<session_state, db_deleted_tiles>>
  /\ screen' = ScriptRun(uploaded_file, session_state', FALSE)
  /\ UNCHANGED <<db_warranty_machines, db_out_warranty_machines, uploaded_file>>

\* "Restore All Deleted Tiles" is clicked
RestoreAll ==
  /\ screen.tab1.restore
  /\ session_state.deleted_tiles # <<>>
  /\ session_state' = [session_state EXCEPT !.deleted_tiles = <<>>]
  /\ db_deleted_tiles' = restore_deleted_tiles(db_deleted_tiles)
  /\ screen' = ScriptRun(uploaded_file, session_state', FALSE)
  /\ UNCHANGED <<db_warranty_machines, db_out_warranty_machines, uploaded_file>>

\* The ids in use, which a new uuid4 differs from
UsedIds ==
  {m.id : m \in Range(db_warranty_machines) \cup Range(db_out_warranty_machines)
                \cup Range(session_state.warranty_machines)
                \cup Range(session_state.out_of_warranty_machines)}

\* warranty_machine_form is submitted
AddWarrantyMachine(form, id) ==
  /\ Len(session_state.warranty_machines) < MaxMachines
  /\ Len(db_warranty_machines) < MaxMachines
  /\ id \notin UsedIds
  /\ IF form.machine_name # "" /\ form.client_name # ""
     THEN LET new_machine ==
                [id |-> id, machine_name |-> form.machine_name,
                 client_name |-> form.client_name, num_machines |-> form.num_machines,
                 warranty_status |-> form.warranty_status, inspected |-> form.inspected]
          IN  /\ session_state' =
                   [session_state EXCEPT !.warranty_machines = Append(@, new_machine)]
              /\ db_warranty_machines' = add_machine(db_warranty_machines, new_machine)
     ELSE UNCHANGED <<session_state, db_warranty_machines>>
  /\ screen' = ScriptRun(uploaded_file, session_state', FALSE)
  /\ UNCHANGED <<db_deleted_tiles, db_out_warranty_machines, uploaded_file>>

\* The delete button of a listed warranty machine is clicked (the button
\* is on the page and the run renders it again: the machine is in the list)
DeleteWarrantyMachine(id) ==
  /\ \E i \in 1..Len(screen.tab2.warranty) : screen.tab2.warranty[i].id = id
  /\ \E m \in Range(session_state.warranty_machines) : m.id = id
  /\ session_state' =
       [session_state EXCEPT !.warranty_machines = SelectSeq(@, LAMBDA m : m.id # id)]
  /\ db_warranty_machines' = delete_machine(db_warranty_machines, id)
  /\ screen' = ScriptRun(uploaded_file, session_state', FALSE)
  /\ UNCHANGED <<db_deleted_tiles, db_out_warranty_machines, uploaded_file>>

\* out_warranty_machine_form is submitted
AddOutWarrantyMachine(form, id) ==
  /\ Len(session_state.out_of_warranty_machines) < MaxMachines
  /\ Len(db_out_warranty_machines) < MaxMachines
  /\ id \notin UsedIds
  /\ IF form.machine_name # "" /\ form.client_name # ""
     THEN LET new_ow_machine ==
                [id |-> id, machine_name |-> form.machine_name,
                 client_name |-> form.client_name, num_machines |-> form.num_machines,
                 inspected |-> form.inspected, quote_lpo_status |-> form.quote_lpo_status]
          IN  /\ session_state' =
                   [session_state EXCEPT
                      !.out_of_warranty_machines = Append(@, new_ow_machine)]
              /\ db_out_warranty_machines' =
                   add_machine(db_out_warranty_machines, new_ow_machine)
     ELSE UNCHANGED <<session_state, db_out_warranty_machines>>
  /\ screen' = ScriptRun(uploaded_file, session_state', FALSE)
  /\ UNCHANGED <<db_deleted_tiles, db_warranty_machines, uploaded_file>>

\* The delete button of a listed out-of-warranty machine is clicked
DeleteOutWarrantyMachine(id) ==
  /\ \E i \in 1..Len(screen.tab2.out_of_warranty) : screen.tab2.out_of_warranty[i].id = id
  /\ \E m \in Range(session_state.out_of_warranty_machines) : m.id = id
  /\ session_state' =
       [session_state EXCEPT
          !.out_of_warranty_machines = SelectSeq(@, LAMBDA m : m.id # id)]
  /\ db_out_warranty_machines' = delete_machine(db_out_warranty_machines, id)
  /\ screen' = ScriptRun(uploaded_file, session_state', FALSE)
  /\ UNCHANGED <<db_deleted_tiles, db_warranty_machines, uploaded_file>>

\* "Refresh Data from Database" is clicked
RefreshData ==
  /\ \E q \in load_deleted_tiles(db_deleted_tiles) :
       session_state' =
         [session_state EXCEPT
            !.deleted_tiles = q,
            !.warranty_machines = load_machines(db_warranty_machines),
            !.out_of_warranty_machines = load_machines(db_out_warranty_machines)]
  /\ screen' = ScriptRun(uploaded_file, session_state', FALSE)
  /\ UNCHANGED <<db_deleted_tiles, db_warranty_machines, db_out_warranty_machines,
                 uploaded_file>>

\* The tables and the lists cleared by any click
ClearAllDataAtOnce ==
  /\ db_deleted_tiles' = <<>>
  /\ db_warranty_machines' = <<>>
  /\ db_out_warranty_machines' = <<>>
  /\ session_state' = EmptySession
  /\ screen' = ScriptRun(uploaded_file, session_state', FALSE)
  /\ UNCHANGED uploaded_file

\* "Clear All Database Data" is clicked: the first click asks to confirm,
\* a click with confirm_clear set clears the tables and the lists
ClearAllData ==
  /\ IF session_state.confirm_clear
     THEN /\ db_deleted_tiles' = <<>>
          /\ db_warranty_machines' = <<>>
          /\ db_out_warranty_machines' = <<>>
          /\ session_state' = EmptySession
          /\ screen' = ScriptRun(uploaded_file, session_state', FALSE)
     ELSE /\ session_state' = [session_state EXCEPT !.confirm_clear = TRUE]
          /\ screen' = ScriptRun(uploaded_file, session_state', TRUE)
          /\ UNCHANGED <<db_deleted_tiles, db_warranty_machines,
                         db_out_warranty_machines>>
  /\ UNCHANGED uploaded_file

\* The page is opened in a new browser session: session_state starts empty
\* and the first script run loads the lists from the database
NewSession ==
  /\ session_state' \in NewSessionStates
  /\ uploaded_file' = NoFile
  /\ screen' = ScriptRun(NoFile, session_state', FALSE)
  /\ UNCHANGED <<db_deleted_tiles, db_warranty_machines, db_out_warranty_machines>>

(***************************************************************************)
(* Script runs in which a call to the database fails.  Every database      *)
(* function opens its own connection (sqlite3.connect), so the store can   *)
(* be reached by one call of a run and not by a later one; the call that   *)
(* cannot reach it raises sqlite3.OperationalError.                        *)
(***************************************************************************)
StoreError == "OperationalError"

\* What a tab shows when the run ended before it
Tab1NotRendered == [Tab1Blank EXCEPT !.state = "not_rendered"]

Tab2NotRendered ==
  [warranty |-> <<>>, out_of_warranty |-> <<>>, summary |-> FALSE,
   total_warranty |-> 0, total_out |-> 0]

Tab3NotRendered ==
  [deleted_tiles |-> 0, warranty |-> 0, out_of_warranty |-> 0, clear_warning |-> FALSE]

\* init_database() at the top of the script raises: nothing is rendered
AbortedAtInit ==
  [tab1 |-> Tab1NotRendered, tab2 |-> Tab2NotRendered, tab3 |-> Tab3NotRendered,
   exception |-> StoreError]

\* The tiles up to the one of that tile_id, included
TilesUpTo(tiles, tile_id) ==
  SubSeq(tiles, 1, CHOOSE n \in 1..Len(tiles) :
                     tiles[n].tile_id = tile_id
                       /\ \A j \in 1..(n - 1) : tiles[j].tile_id # tile_id)

\* The machines up to the one of that id, included
MachinesUpTo(machines, id) ==
  SubSeq(machines, 1, CHOOSE n \in 1..Len(machines) :
                        machines[n].id = id
                          /\ \A j \in 1..(n - 1) : machines[j].id # id)

\* tab1 when add_deleted_tile raises in create_tile: the loop over
\* display_df stops at the tile clicked and the handler around the upload
\* reports the error; the analytics and the restore section are not reached
Tab1DeleteFailed(full, tile_id) ==
  [full EXCEPT
     !.tiles = TilesUpTo(full.tiles, tile_id),
     !.analytics = FALSE,
     !.date_income = <<>>,
     !.party_stats = <<>>,
     !.summary = Tab1Blank.summary,
     !.error = StoreError,
     !.restore = FALSE,
     !.deleted_listed = <<>>]

\* tab1 when restore_deleted_tiles raises: everything up to the button is
\* rendered, the list of deleted DocNos beside it is not
Tab1RestoreFailed(full) ==
  [full EXCEPT !.error = StoreError, !.deleted_listed = <<>>]

\* Any interaction but an upload, in a run that init_database ends
RunAborted ==
  /\ screen' = AbortedAtInit
  /\ UNCHANGED <<db_deleted_tiles, db_warranty_machines, db_out_warranty_machines,
                 session_state, uploaded_file>>

\* A file is chosen, and init_database ends the run
UploadAborted(file) ==
  /\ uploaded_file' = file
  /\ screen' = AbortedAtInit
  /\ UNCHANGED <<db_deleted_tiles, db_warranty_machines, db_out_warranty_machines,
                 session_state>>

\* Delete is clicked and add_deleted_tile raises: the tile_id is in the
\* session list by then; the exception is caught by the handler of tab1
DeleteTileFails(tile_id) ==
  /\ \E i \in 1..Len(screen.tab1.tiles) : screen.tab1.tiles[i].tile_id = tile_id
  /\ tile_id \notin Range(session_state.deleted_tiles)
  /\ session_state' = [session_state EXCEPT !.deleted_tiles = Append(@, tile_id)]
  /\ screen' =
       [ScriptRun(uploaded_file, session_state', FALSE) EXCEPT
          !.tab1 = Tab1DeleteFailed(Tab1(uploaded_file, session_state.deleted_tiles),
                                    tile_id)]
  /\ UNCHANGED <<db_deleted_tiles, db_warranty_machines, db_out_warranty_machines,
                 uploaded_file>>

\* "Restore All Deleted Tiles" is clicked and restore_deleted_tiles raises:
\* the session list is empty by then; caught by the handler of tab1
RestoreAllFails ==
  /\ screen.tab1.restore
  /\ session_state.deleted_tiles # <<>>
  /\ session_state' = [session_state EXCEPT !.deleted_tiles = <<>>]
  /\ screen' =
       [ScriptRun(uploaded_file, session_state', FALSE) EXCEPT
          !.tab1 = Tab1RestoreFailed(Tab1(uploaded_file, session_state.deleted_tiles))]
  /\ UNCHANGED <<db_deleted_tiles, db_warranty_machines, db_out_warranty_machines,
                 uploaded_file>>

\* The page of a run that an exception ends in tab2, after tab1 was
\* rendered with the lists ss and with tab2 as far as it got
EndedInTab2(ss, tab2) ==
  [tab1 |-> Tab1(uploaded_file, ss.deleted_tiles), tab2 |-> tab2,
   tab3 |-> Tab3NotRendered, exception |-> StoreError]

\* The page of a run that an exception ends in tab3, after its counts
EndedInTab3(ss) ==
  [tab1 |-> Tab1(uploaded_file, ss.deleted_tiles), tab2 |-> Tab2(ss),
   tab3 |-> Tab3(ss, FALSE), exception |-> StoreError]

\* warranty_machine_form is submitted and add_warranty_machine raises: the
\* machine is in the session list by then; nothing catches the exception
AddWarrantyMachineFails(form, id) ==
  /\ Len(session_state.warranty_machines) < MaxMachines
  /\ id \notin UsedIds
  /\ form.machine_name # "" /\ form.client_name # ""
  /\ session_state' =
       [session_state EXCEPT
          !.warranty_machines =
             Append(@, [id |-> id, machine_name |-> form.machine_name,
                        client_name |-> form.client_name,
                        num_machines |-> form.num_machines,
                        warranty_status |-> form.warranty_status,
                        inspected |-> form.inspected])]
  /\ screen' = EndedInTab2(session_state, Tab2NotRendered)
  /\ UNCHANGED <<db_deleted_tiles, db_warranty_machines, db_out_warranty_machines,
                 uploaded_file>>

\* The delete button of a warranty machine is clicked and
\* delete_warranty_machine raises: the machine has left the session list
DeleteWarrantyMachineFails(id) ==
  /\ \E i \in 1..Len(screen.tab2.warranty) : screen.tab2.warranty[i].id = id
  /\ \E m \in Range(session_state.warranty_machines) : m.id = id
  /\ session_state' =
       [session_state EXCEPT !.warranty_machines = SelectSeq(@, LAMBDA m : m.id # id)]
  /\ screen' =
       EndedInTab2(session_state,
                   [Tab2NotRendered EXCEPT
                      !.warranty = MachinesUpTo(session_state.warranty_machines, id)])
  /\ UNCHANGED <<db_deleted_tiles, db_warranty_machines, db_out_warranty_machines,
                 uploaded_file>>

\* "Refresh Data from Database" or a confirming "Clear All Database Data"
\* is clicked and the first database call of the handler raises: no list
\* and no table has changed by then
Tab3ButtonFails ==
  /\ screen.exception = ""
  /\ screen' = EndedInTab3(session_state)
  /\ UNCHANGED <<db_deleted_tiles, db_warranty_machines, db_out_warranty_machines,
                 session_state, uploaded_file>>

(***************************************************************************)
(* Specifications                                                          *)
(***************************************************************************)
Next ==
  \/ Rerun
  \/ \E file \in SessionFiles : Upload(file)
  \/ RemoveFile
  \/ \E tile_id \in {screen.tab1.tiles[i].tile_id : i \in 1..Len(screen.tab1.tiles)} :
       DeleteTile(tile_id)
  \/ RestoreAll
  \/ \E form \in WarrantyForms, id \in MachineIds : AddWarrantyMachine(form, id)
  \/ \E id \in MachineIds : DeleteWarrantyMachine(id)
  \/ \E form \in OutWarrantyForms, id \in MachineIds : AddOutWarrantyMachine(form, id)
  \/ \E id \in MachineIds : DeleteOutWarrantyMachine(id)
  \/ RefreshData
  \/ ClearAllData
  \/ NewSession

\* The application in one browser session at a time
Spec == Init /\ [][Next]_vars

\* The steps in which a database call fails (for the machines, in the
\* handlers of the warranty list)
StoreFailure ==
  \/ RunAborted
  \/ \E file \in StoreFiles : UploadAborted(file)
  \/ \E tile_id \in {screen.tab1.tiles[i].tile_id : i \in 1..Len(screen.tab1.tiles)} :
       DeleteTileFails(tile_id)
  \/ RestoreAllFails
  \/ \E form \in WarrantyForms, id \in MachineIds : AddWarrantyMachineFails(form, id)
  \/ \E id \in MachineIds : DeleteWarrantyMachineFails(id)
  \/ Tab3ButtonFails

\* The steps of Next, the uploads being of the files of StoreFiles and the
\* machines being warranty machines (the out-of-warranty form and delete
\* button have the same code with the other list and table)
StoreSuccess ==
  \/ Rerun
  \/ \E file \in StoreFiles : Upload(file)
  \/ \E tile_id \in {screen.tab1.tiles[i].tile_id : i \in 1..Len(screen.tab1.tiles)} :
       DeleteTile(tile_id)
  \/ RestoreAll
  \/ \E form \in WarrantyForms, id \in MachineIds : AddWarrantyMachine(form, id)
  \/ \E id \in MachineIds : DeleteWarrantyMachine(id)
  \/ RefreshData
  \/ ClearAllData
  \/ NewSession

NextStore == StoreSuccess \/ StoreFailure

\* The application in one browser session at a time, the store being
\* reachable by some database calls and not by others
SpecStore == Init /\ [][NextStore]_vars

\* The pipeline on every file of PipelineFiles: the script run on the file
NextPipeline == Rerun

SpecPipeline == InitPipeline /\ [][NextPipeline]_vars

(***************************************************************************)
(* Properties.  The operators of this section read the uploaded file       *)
(* itself: its data lines under the canonical header, field by position.   *)
(***************************************************************************)
\* The script has run on the uploaded file
Rendered == uploaded_file # NoFile /\ screen.tab1.state # "no_file"

\* ... and the file names its six columns canonically
CanonicalFile == Rendered /\ uploaded_file[1] = CanonicalHeader

InputRows == Tail(uploaded_file)

\* The cell is read as a missing value
Missing(cell) == cell \in NaValues

\* The row passes the filters of process_csv_data
Survives(row) == ~Missing(row[1]) /\ ~Missing(row[3])

Survivors == SelectSeq(InputRows, Survives)

Tiles == screen.tab1.processed

\* The surviving rows of a tile's document, in input order
Members(tile) == SelectSeq(Survivors, LAMBDA r : Str(r[1]) = tile.DocNo)

\* The text a cell of a text column contributes
CellText(cell) == Str(strip(IF Missing(cell) THEN <<"n", "a", "n">> ELSE cell))

\* C1: process_csv_data returns exactly one Tile per distinct DocumentId
\* among the rows that survive filtering: no two Tiles share a DocumentId,
\* every surviving row's DocumentId has a Tile, and every Tile's DocumentId
\* occurs in a surviving row.
C1_OneTilePerDocument ==
  CanonicalFile =>
    /\ \A i, j \in 1..Len(Tiles) : Tiles[i].DocNo = Tiles[j].DocNo => i = j
    /\ {Tiles[i].DocNo : i \in 1..Len(Tiles)}
         = {Str(Survivors[k][1]) : k \in 1..Len(Survivors)}

\* Two documents, one of them with two surviving rows
C1_Witness == CanonicalFile /\ Len(Tiles) = 2 /\ Len(Survivors) = 3

\* C2: the Tile's Date and Party are those of the member row that is
\* earliest in input order, whatever they are (an absent Date included,
\* also when a later member row has a Date).
C2_FirstOfEarliestRow ==
  CanonicalFile =>
    \A i \in 1..Len(Tiles) :
      /\ Tiles[i].Date = to_datetime(Members(Tiles[i])[1][2])
      /\ Tiles[i].Party = Str(strip(Members(Tiles[i])[1][3]))

\* The cell is missing or empty after trimming
Blank(cell) == Missing(cell) \/ strip(cell) = <<>>

\* The rows of a tile's document whose DocNo and Party are not blank
ValidMembers(tile) ==
  SelectSeq(InputRows, LAMBDA r : ~Blank(r[1]) /\ ~Blank(r[3]) /\ Str(r[1]) = tile.DocNo)

\* C3: a row whose Party or DocumentId is null or empty after trimming
\* contributes to no Tile: every Tile is made of the other rows of its
\* document alone (its concatenations, its Rate sum, its Party).
C3_BlankKeyRowsExcluded ==
  CanonicalFile =>
    \A i \in 1..Len(Tiles) :
      LET m == ValidMembers(Tiles[i])
      IN  /\ m # <<>>
          /\ Tiles[i].StockCode = join(", ", [k \in 1..Len(m) |-> CellText(m[k][4])])
          /\ Tiles[i].Description = join(" | ", [k \in 1..Len(m) |-> CellText(m[k][5])])
          /\ Tiles[i].Rate = group_sum([k \in 1..Len(m) |-> fillna0(to_numeric(m[k][6]))],
                                       <<FZero, FZero>>)
          /\ Tiles[i].Party = Str(strip(m[1][3]))

\* C4: the Tile's StockCode is its member rows' StockCode values joined
\* with ", " and its Description their Description values joined with
\* " | ", one entry per member row, in input order, duplicates kept.
C4_ConcatenationInOrder ==
  CanonicalFile =>
    \A i \in 1..Len(Tiles) :
      LET m == Members(Tiles[i])
      IN  /\ Tiles[i].StockCode = join(", ", [k \in 1..Len(m) |-> CellText(m[k][4])])
          /\ Tiles[i].Description = join(" | ", [k \in 1..Len(m) |-> CellText(m[k][5])])

\* Members [A, B, A] give exactly "A, B, A"
C4_Witness ==
  /\ CanonicalFile
  /\ \E i \in 1..Len(Tiles) :
       /\ Len(Members(Tiles[i])) = 3
       /\ Tiles[i].StockCode = "A, B, A"
       /\ Tiles[i].Description = "Widget | Gadget | Widget"

\* The exact value of a Rate cell in hundredths: the cell is a plain
\* decimal literal with at most two decimals, anything else counts 0
Hundredths(cell) ==
  IF to_numeric(cell) = FNaN THEN 0
  ELSE LET dots == {i \in 1..Len(cell) : cell[i] = "."}
           dot  == IF dots = {} THEN Len(cell) + 1 ELSE CHOOSE i \in dots : TRUE
       IN  DigitsValue(SubSeq(cell, 1, dot - 1)) * Pow10(2)
             + DigitsValue(SubSeq(cell, dot + 1, Len(cell))) * Pow10(2 - (Len(cell) - dot))

RECURSIVE SumHundredths(_)
SumHundredths(rows) ==
  IF rows = <<>> THEN 0 ELSE Hundredths(rows[1][6]) + SumHundredths(Tail(rows))

\* C5: the Tile's Rate equals the exact decimal sum r1+...+rN of its member
\* rows' rates (the value a decimal summation gives, read as the float64
\* nearest to it), free of binary floating-point drift.
C5_ExactDecimalSum ==
  CanonicalFile =>
    \A i \in 1..Len(Tiles) :
      Tiles[i].Rate = DecimalToFloat(SumHundredths(Members(Tiles[i])), Pow10(2))

\* C6: every Tile's tile_id is exactly its DocumentId followed by "_tile",
\* whatever the other cells of its rows and their order: the tile_ids of an
\* upload are the surviving rows' DocumentIds with the suffix.
C6_TileIdFromDocNo ==
  /\ Rendered => \A i \in 1..Len(Tiles) : Tiles[i].tile_id = Tiles[i].DocNo \o "_tile"
  /\ CanonicalFile =>
       {Tiles[i].tile_id : i \in 1..Len(Tiles)}
         = {Str(Survivors[k][1]) \o "_tile" : k \in 1..Len(Survivors)}

\* Two documents, one of several rows, with their tile_ids
C6_Witness ==
  /\ CanonicalFile
  /\ Len(Survivors) = 3
  /\ {Tiles[i].tile_id : i \in 1..Len(Tiles)} = {"A1_tile", "A2_tile"}

\* The first line of the file is taken as its header
PlainHeader ==
  /\ uploaded_file[1][1] # <<>>
  /\ ~Contains(uploaded_file[1][1], TRANSACTION_CHECKLIST)
  /\ ~Contains(uploaded_file[1][1], Unnamed)

\* The file has a header of its own and one data line
SynonymFile ==
  /\ Rendered
  /\ PlainHeader
  /\ Len(uploaded_file) = 2
  /\ uploaded_file[1] # CanonicalHeader

\* The source column names as reconciliation sees them
HeaderNames == [i \in 1..Len(uploaded_file[1]) |-> strip(uploaded_file[1][i])]

Offered(name) == \E i \in 1..Len(HeaderNames) : HeaderNames[i] = name

\* The data cell under the source column of that name
ValueUnder(name) == uploaded_file[2][CHOOSE i \in 1..Len(HeaderNames) : HeaderNames[i] = name]

\* The k-th synonym is the first of the list that the file offers
FirstOffered(possible, k) ==
  Offered(possible[k]) /\ \A j \in 1..(k - 1) : ~Offered(possible[j])

\* The value the tile shows for the f-th canonical field
TileField(tile, f) ==
  CASE f = 1 -> tile.DocNo
    [] f = 2 -> tile.Date
    [] f = 3 -> tile.Party
    [] f = 4 -> tile.StockCode
    [] f = 5 -> tile.Description
    [] f = 6 -> tile.Rate

\* The value a cell gives in the f-th canonical field
FieldOf(cell, f) ==
  CASE f = 1 -> Str(cell)
    [] f = 2 -> to_datetime(cell)
    [] f = 6 -> fillna0(to_numeric(cell))
    [] OTHER -> Str(strip(cell))

\* C7: for each canonical field, reconciliation binds the first synonym of
\* the field's list, in list order, that is among the source column names,
\* wherever the columns stand: the Tile of a table that resolves all six
\* fields carries, in each field, the data of that synonym's column.
C7_FirstSynonymBound ==
  SynonymFile =>
    \A f \in 1..Len(column_mapping) :
      \A k \in 1..Len(column_mapping[f][2]) :
        FirstOffered(column_mapping[f][2], k) =>
          \A i \in 1..Len(Tiles) :
            TileField(Tiles[i], f) = FieldOf(ValueUnder(column_mapping[f][2][k]), f)

\* Every field resolved, two synonyms of DocNo offered with the later one of
\* the list standing first in the file, and the earlier one bound
C7_Witness ==
  /\ SynonymFile
  /\ Len(Tiles) = 1
  /\ \E a, b \in 1..Len(HeaderNames) :
       /\ a < b
       /\ HeaderNames[a] = column_mapping[1][2][4]
       /\ HeaderNames[b] = column_mapping[1][2][3]
  /\ Tiles[1].DocNo = "A1"

\* The canonical field has no synonym among the source columns
Unresolved(f) == \A k \in 1..Len(column_mapping[f][2]) : ~Offered(column_mapping[f][2][k])

\* C8: when at least one canonical field has no bound source column, the
\* fields reported missing are exactly the unresolved ones, the result is
\* empty, and no Tile and no statistics are displayed for the upload.
C8_MissingColumnsReported ==
  (Rendered /\ PlainHeader /\ \E f \in 1..Len(column_mapping) : Unresolved(f)) =>
    /\ Range(screen.tab1.missing)
         = {Str(column_mapping[f][1]) : f \in {g \in 1..Len(column_mapping) : Unresolved(g)}}
    /\ screen.tab1.processed = <<>>
    /\ screen.tab1.tiles = <<>>
    /\ ~screen.tab1.analytics
    /\ screen.tab1.state = "no_records"

\* Some fields bound and two of them unresolved
C8_Witness ==
  /\ Rendered
  /\ PlainHeader
  /\ Cardinality({f \in 1..Len(column_mapping) : Unresolved(f)}) = 2
  /\ Len(screen.tab1.missing) = 2

\* C9: a cell that fails coercion never removes its row: a row whose Rate
\* does not parse counts 0 in the Tile's Rate and a row whose Date does not
\* parse has no Date, and both stay members of their Tile (its Rate sum
\* runs over all members, its concatenations have their entries).
C9_CoercionKeepsRows ==
  CanonicalFile =>
    /\ \A k \in 1..Len(Survivors) :
         \E i \in 1..Len(Tiles) : Tiles[i].DocNo = Str(Survivors[k][1])
    /\ \A i \in 1..Len(Tiles) :
         LET m == Members(Tiles[i])
         IN  /\ Tiles[i].Rate =
                  group_sum([k \in 1..Len(m) |->
                               IF to_numeric(m[k][6]) = FNaN THEN FZero
                               ELSE to_numeric(m[k][6])], <<FZero, FZero>>)
             /\ Tiles[i].StockCode = join(", ", [k \in 1..Len(m) |-> CellText(m[k][4])])
             /\ Tiles[i].Description = join(" | ", [k \in 1..Len(m) |-> CellText(m[k][5])])
             /\ (\A k \in 1..Len(m) : to_datetime(m[k][2]) = NaT) => Tiles[i].Date = NaT

\* A tile of three rows, one with a Rate and one with a Date that do not
\* parse, and a tile made of one row where neither parses
C9_Witness ==
  /\ CanonicalFile
  /\ \E i \in 1..Len(Tiles) :
       /\ Len(Members(Tiles[i])) = 2
       /\ \E k \in 1..2 : to_numeric(Members(Tiles[i])[k][6]) = FNaN
       /\ \E k \in 1..2 : to_datetime(Members(Tiles[i])[k][2]) = NaT
       /\ Tiles[i].Rate # FZero
  /\ \E i \in 1..Len(Tiles) :
       /\ Len(Members(Tiles[i])) = 1
       /\ to_numeric(Members(Tiles[i])[1][6]) = FNaN
       /\ to_datetime(Members(Tiles[i])[1][2]) = NaT
       /\ Tiles[i].Rate = FZero
       /\ Tiles[i].Date = NaT

\* The tile_ids deleted in the session
Deleted == Range(session_state.deleted_tiles)

\* The tiles of the upload that are not deleted
NotDeleted == SelectSeq(screen.tab1.processed, LAMBDA t : t.tile_id \notin Deleted)

\* What a render shows: exactly the tiles that are not deleted, and the
\* statistics over exactly those
DeletedHidden ==
  screen.tab1.state = "tiles" =>
    /\ screen.tab1.tiles = NotDeleted
    /\ screen.tab1.date_income = date_income(NotDeleted)
    /\ screen.tab1.party_stats = party_stats(NotDeleted)
    /\ screen.tab1.summary = summary(NotDeleted)

\* What a step does to the deleted tile_ids: it keeps them all, unless it
\* is Restore All or Clear All
DeletedKept ==
  \/ Deleted \subseteq Range(session_state'.deleted_tiles)
  \/ RestoreAll
  \/ ClearAllData

\* C10: once a Tile is deleted, its tile_id stays deleted through every
\* later step (upload of the same or another file, rerun, reload of the
\* session from the store) until Restore All or Clear All, and every render
\* displays exactly the Tiles whose tile_id is not deleted and counts only
\* those in the date-wise, party-wise and summary statistics.
C10_SoftDeletePersists == [](DeletedHidden) /\ [][DeletedKept]_vars

\* An upload of two tiles rendered with one of them deleted and stored
C10_Witness ==
  /\ screen.tab1.state = "tiles"
  /\ Len(screen.tab1.processed) = 2
  /\ Len(screen.tab1.tiles) = 1
  /\ \E i \in 1..2 : screen.tab1.processed[i].tile_id \in Deleted \cap Range(db_deleted_tiles)

\* No value occurs twice in the sequence
NoDuplicates(q) == \A i, j \in 1..Len(q) : q[i] = q[j] => i = j

\* The tile_ids with a Delete button on the page
ShownIds == {screen.tab1.tiles[i].tile_id : i \in 1..Len(screen.tab1.tiles)}

\* A delete of a tile whose tile_id the table already holds
DeleteAgain ==
  \A t \in ShownIds :
    (DeleteTile(t) /\ t \in Range(db_deleted_tiles)) =>
      /\ db_deleted_tiles' = db_deleted_tiles
      /\ Range(session_state'.deleted_tiles) = Deleted \cup {t}
      /\ screen'.tab1.error = ""
      /\ screen'.exception = ""

\* C11: recording a delete marker is idempotent: the table and the session
\* list never hold a tile_id twice, and a delete of a tile whose tile_id is
\* already in the table raises no error and leaves the table as it is, the
\* deleted set being the one a single delete gives.
C11_DeleteMarkerIdempotent ==
  /\ [](NoDuplicates(db_deleted_tiles) /\ NoDuplicates(session_state.deleted_tiles))
  /\ [][DeleteAgain]_vars

\* A tile whose tile_id is in the table is on the page with its Delete
\* button (the session list lost it in a restore that did not reach the store)
C11_Witness ==
  \E t \in ShownIds : t \in Range(db_deleted_tiles) /\ t \notin Deleted

\* The names read_csv takes from line k of the file, trimmed
NamesOfLine(k) ==
  [i \in 1..Len(uploaded_file[k]) |->
     IF uploaded_file[k][i] = <<>> THEN Str(UnnamedColumn(i - 1))
     ELSE Str(strip(uploaded_file[k][i]))]

\* Every canonical field has a synonym among the names of line k
SynonymValid(k) ==
  \A f \in 1..Len(column_mapping) :
    \E j \in 1..Len(column_mapping[f][2]) :
      \E i \in 1..Len(uploaded_file[k]) :
        strip(uploaded_file[k][i]) = column_mapping[f][2][j]

\* The lines after line k that are not missing in every cell
RowsAfter(k) ==
  SelectSeq(SubSeq(uploaded_file, k + 1, Len(uploaded_file)),
            LAMBDA r : \E i \in 1..Len(r) : ~Missing(r[i]))

\* Line k is the header of what tab1 shows
HeaderIsLine(k) ==
  /\ screen.tab1.state # "error"
  /\ screen.tab1.total_rows = Len(RowsAfter(k))
  /\ screen.tab1.missing # <<>> =>
       Range(NamesOfLine(k)) \subseteq Range(screen.tab1.available)
  /\ SynonymValid(k) => (screen.tab1.missing = <<>> /\ screen.tab1.error \in {"", "KeyError"})

\* The statement of header recovery for every upload
C12_HeaderRecoveryAlways ==
  Rendered =>
    IF PlainHeader
    THEN ~screen.tab1.recovered /\ HeaderIsLine(1)
    ELSE screen.tab1.recovered /\ HeaderIsLine(2)

\* C12: when the first column name of the first parse is an unnamed
\* placeholder or holds the banner caption and the file has a second line,
\* the file is read again with the second line as header, the recovery is
\* reported and reconciliation runs on the names of the second line
\* (no field missing when they are synonym-valid); when the file has no
\* second line the second read fails, the error is reported and no
\* recovery is; when the first column name is neither, the first line is
\* the header and no recovery is reported.
C12_HeaderRecovery ==
  Rendered =>
    CASE PlainHeader -> ~screen.tab1.recovered /\ HeaderIsLine(1)
      [] ~PlainHeader /\ Len(uploaded_file) > 1 -> screen.tab1.recovered /\ HeaderIsLine(2)
      [] OTHER -> /\ ~screen.tab1.recovered
                  /\ screen.tab1.state = "error"
                  /\ screen.tab1.error = "EmptyDataError"
                  /\ screen.tab1.tiles = <<>>

\* An empty first line, synonyms in the second, a tile from the third
C12_Witness ==
  /\ Rendered
  /\ uploaded_file[1][1] = <<>>
  /\ Len(uploaded_file) = 3
  /\ uploaded_file[2] # CanonicalHeader
  /\ SynonymValid(2)
  /\ screen.tab1.recovered
  /\ Len(screen.tab1.tiles) = 1

\* C13: when no row of the upload is left by the filters, process_csv_data
\* returns an empty result without raising and tab1 shows the no-data
\* state: the "no valid data" warning is given, no Tile and no statistics
\* are rendered and no error is reported by the handler.
C13_NoUsableRows ==
  (CanonicalFile /\ Survivors = <<>>) =>
    /\ screen.tab1.processed = <<>>
    /\ screen.tab1.no_valid
    /\ screen.tab1.missing = <<>>
    /\ screen.tab1.state = "no_records"
    /\ screen.tab1.tiles = <<>>
    /\ ~screen.tab1.analytics
    /\ screen.tab1.error = ""
    /\ screen.exception = ""

\* Two rows with text, both dropped for a missing DocNo or Party
C13_Witness ==
  /\ CanonicalFile
  /\ Len(InputRows) = 2
  /\ \A k \in 1..2 : ~Survives(InputRows[k]) /\ \E i \in 1..6 : ~Missing(InputRows[k][i])
  /\ screen.tab1.no_valid

\* The next run is on the same upload and returns the same frame
SameResult ==
  (uploaded_file # NoFile /\ uploaded_file' = uploaded_file) =>
    screen'.tab1.processed = screen.tab1.processed

\* The frame is the one a run returns with nothing deleted
ResultOfFileAlone ==
  uploaded_file # NoFile =>
    screen.tab1.processed = process_csv_data(read_csv(uploaded_file, 0)).grouped

StoreCallFails ==
  \/ \E t \in ShownIds : DeleteTileFails(t)
  \/ RestoreAllFails
  \/ \E form \in WarrantyForms, id \in MachineIds : AddWarrantyMachineFails(form, id)
  \/ \E id \in MachineIds : DeleteWarrantyMachineFails(id)

\* The page of the next run shows the failure
FailureReported == screen'.tab1.error = StoreError \/ screen'.exception = StoreError

\* The lists of the session are after the step what they were before
ListsKept ==
  /\ session_state'.deleted_tiles = session_state.deleted_tiles
  /\ session_state'.warranty_machines = session_state.warranty_machines
  /\ session_state'.out_of_warranty_machines = session_state.out_of_warranty_machines

\* C15: an operation that needs the store and finds it unavailable is
\* blocked: the failure is reported and the session's list of deleted
\* tiles and its machine lists are after the operation what they were
\* before it.
C15_FailedOperationBlocked == [][StoreCallFails => (FailureReported /\ ListsKept)]_vars

\* The document of the row has its tile on the page
TileOnPage(row) ==
  \E i \in 1..Len(screen.tab1.tiles) : screen.tab1.tiles[i].DocNo = Str(row[1])

\* C16: with the store out of reach the tiles of the session are still
\* rendered: for an uploaded file tab1 is rendered and every document with
\* a usable row that is not deleted in the session has its Tile on the
\* page; no failure of the store ends the run before or among the tiles.
C16_TilesRenderedWithoutStore ==
  uploaded_file # NoFile =>
    /\ screen.tab1.state # "not_rendered"
    /\ \A k \in 1..Len(Survivors) :
         (Str(Survivors[k][1]) \o "_tile") \notin Deleted => TileOnPage(Survivors[k])

\* The ids of the machines of a list or table
Ids(machines) == {machines[i].id : i \in 1..Len(machines)}

\* The session's lists and the tables hold the same tile_ids and ids
SessionAgreesWithStore ==
  /\ Deleted = Range(db_deleted_tiles)
  /\ Ids(session_state.warranty_machines) = Ids(db_warranty_machines)
  /\ Ids(session_state.out_of_warranty_machines) = Ids(db_out_warranty_machines)

\* The step changes the deleted tiles, the warranty machines, the
\* out-of-warranty machines (in the session or in the table)
DeletedChanged ==
  \/ Range(session_state'.deleted_tiles) # Deleted
  \/ Range(db_deleted_tiles') # Range(db_deleted_tiles)

WarrantyChanged ==
  \/ Ids(session_state'.warranty_machines) # Ids(session_state.warranty_machines)
  \/ Ids(db_warranty_machines') # Ids(db_warranty_machines)

OutWarrantyChanged ==
  \/ Ids(session_state'.out_of_warranty_machines) # Ids(session_state.out_of_warranty_machines)
  \/ Ids(db_out_warranty_machines') # Ids(db_out_warranty_machines)

\* A step changes one collection at most, unless it is the confirmed clear
OneCollectionAtATime ==
  \/ ~(DeletedChanged /\ WarrantyChanged)
       /\ ~(DeletedChanged /\ OutWarrantyChanged)
       /\ ~(WarrantyChanged /\ OutWarrantyChanged)
  \/ session_state.confirm_clear /\ ClearAllData

\* C17: with every database call succeeding, the tile_ids of the session's
\* deleted list are those of the deleted_tiles table and the ids of each
\* machine list are those of its table, after any sequence of operations;
\* an operation changes one of the three collections at most, the
\* confirmed Clear All excepted.
C17_SessionAgreesWithStore == [](SessionAgreesWithStore) /\ [][OneCollectionAtATime]_vars

\* A tile deleted and a machine in each list, all three in the tables
C17_Witness ==
  /\ Deleted # {}
  /\ Ids(session_state.warranty_machines) # {}
  /\ Ids(session_state.out_of_warranty_machines) # {}
  /\ SessionAgreesWithStore

\* Tables and session lists are all empty
AllEmpty ==
  /\ db_deleted_tiles = <<>>
  /\ db_warranty_machines = <<>>
  /\ db_out_warranty_machines = <<>>
  /\ session_state.deleted_tiles = <<>>
  /\ session_state.warranty_machines = <<>>
  /\ session_state.out_of_warranty_machines = <<>>

\* The step leaves tables and session lists as they are
DataKept ==
  /\ UNCHANGED <<db_deleted_tiles, db_warranty_machines, db_out_warranty_machines>>
  /\ ListsKept

\* The first click: nothing but the flag changes, and the page warns
FirstClick ==
  (ClearAllData /\ ~session_state.confirm_clear) =>
    /\ DataKept
    /\ session_state'.confirm_clear
    /\ screen'.tab3.clear_warning

\* The click with the flag set: everything emptied, the flag reset
SecondClick ==
  (ClearAllData /\ session_state.confirm_clear) =>
    /\ AllEmpty'
    /\ ~session_state'.confirm_clear

\* The table holds fewer rows after the step
LosesRows(table_before, table_after) == Len(table_after) < Len(table_before)

\* More than one table loses rows only in the click with the flag set; the
\* flag is set only by a click and reset only by a click or a new session
OnlyByClicks ==
  /\ \/ /\ LosesRows(db_deleted_tiles, db_deleted_tiles')
          /\ LosesRows(db_warranty_machines, db_warranty_machines')
       \/ /\ LosesRows(db_deleted_tiles, db_deleted_tiles')
          /\ LosesRows(db_out_warranty_machines, db_out_warranty_machines')
       \/ /\ LosesRows(db_warranty_machines, db_warranty_machines')
          /\ LosesRows(db_out_warranty_machines, db_out_warranty_machines')
       => (session_state.confirm_clear /\ ClearAllData)
  /\ (~session_state.confirm_clear /\ session_state'.confirm_clear) => ClearAllData
  /\ (session_state.confirm_clear /\ ~session_state'.confirm_clear) =>
       (ClearAllData \/ NewSession)

\* C18: a click on Clear All Database Data with confirm_clear false changes
\* no table and no session list and sets the flag; tables and lists are
\* emptied by the click made with the flag true, which resets the flag, so
\* a clearing of data follows an earlier click of the session and the next
\* clearing needs two clicks again.
C18_TwoStepClear == [][FirstClick /\ SecondClick /\ OnlyByClicks]_vars

\* After the first click, with a deleted tile and a machine still stored
C18_Witness ==
  /\ session_state.confirm_clear
  /\ screen.tab3.clear_warning
  /\ db_deleted_tiles # <<>>
  /\ db_warranty_machines # <<>>
  /\ session_state.deleted_tiles # <<>>
========================================================================
